---------------------------- MODULE Spec2Model ----------------------------
(***************************************************************************)
(* Model of acp-example/otel/otel-test-traces.py: a script that builds     *)
(* three OTLP payloads and POSTs each of them to a local collector with a  *)
(* bounded retry loop (send_telemetry), then prints the generated ids and  *)
(* a summary and exits with a status code.                                 *)
(*                                                                         *)
(* The answer of the network to a POST is the only input of the program    *)
(* after start-up; it is chosen nondeterministically at every attempt.     *)
(* The console/network/clock activity of the program is recorded in `log`: *)
(* one entry per POST, per time.sleep, per return of send_telemetry, and   *)
(* per result/ids/summary print and the process exit.  The per-attempt     *)
(* progress and error lines are not logged; the text of the last error     *)
(* line is the local variable error_msg.                                   *)
(***************************************************************************)
EXTENDS Integers, Sequences, FiniteSets, TLC

\* ------------------------------------------------------------ constants

\* Configuration for retry mechanism
MAX_RETRIES == 3

\* seconds between retries
RETRY_DELAY == 2

total_operations == 3

\* Mutant of Types: the metrics block comes before the logs block.
TypesMetricsFirst == <<"metrics", "logs", "traces">>

\* The three module-level send_telemetry calls, in program order.
Types == <<"logs", "metrics", "traces">>

\* ------------------------------------------------- inputs (environment)

\* HTTP statuses the collector may answer with.  A 3xx without a Location
\* header (e.g. 304) is handed back to the caller by requests.post as is.
Statuses == {200, 204, 304, 400, 404, 500, 599}

\* What one requests.post call can do: hand back a response with a status,
\* or raise one of the three exception classes the handlers distinguish.
Outcomes ==
    [kind : {"response"}, status : Statuses]
      \cup [kind : {"ConnectionError", "Timeout", "RequestException"}, status : {0}]

\* Seeds of the operating system's random source used by os.urandom.
Entropy == {7, 200}

\* ------------------------------------------------------ pure functions

HexDigits == <<"0", "1", "2", "3", "4", "5", "6", "7",
               "8", "9", "a", "b", "c", "d", "e", "f">>

RECURSIVE HexNoPadding(_)
\* Mutant of Hex: each byte is formatted on its own without zero padding.
HexNoPadding(bs) ==
    IF bs = <<>> THEN <<>>
    ELSE LET b == bs[Len(bs)]
             front == HexNoPadding(SubSeq(bs, 1, Len(bs) - 1))
         IN  IF b < 16 THEN Append(front, HexDigits[b + 1])
             ELSE front \o <<HexDigits[(b \div 16) + 1], HexDigits[(b % 16) + 1]>>

\* bytes.hex(): two lowercase hexadecimal digits per byte, high nibble first.
Hex(bs) ==
    [i \in 1..(2 * Len(bs)) |->
        IF i % 2 = 1 THEN HexDigits[(bs[(i + 1) \div 2] \div 16) + 1]
                     ELSE HexDigits[(bs[i \div 2] % 16) + 1]]

\* os.urandom(n): n bytes, each in 0..255.
URandom(n) == {[i \in 1..n |-> (s + 89 * i) % 256] : s \in Entropy}

\* Mutant of RaisesForStatus: only client errors raise.
RaisesForStatusClientOnly(s) == 400 <= s /\ s < 500

\* response.raise_for_status(): raises HTTPError (a RequestException) for
\* 4XX/5XX responses, and for no other status.
RaisesForStatus(s) == 400 <= s /\ s < 600

\* The attempt of the try block fails iff requests.post raised or
\* raise_for_status raised.
Raised(o) == o.kind # "response" \/ RaisesForStatus(o.status)

\* The class of the exception a failed attempt raises: the one requests.post
\* raised, or the HTTPError of raise_for_status.
Exception(o) == IF o.kind = "response" THEN "HTTPError" ELSE o.kind

\* Mutant of Handler: the last clause names HTTPError instead of its base
\* class, and the Timeout clause is missing.
HandlerNarrow(e) ==
    IF e = "ConnectionError" THEN "ConnectionError"
    ELSE IF e = "HTTPError" THEN "RequestException"
    ELSE "uncaught"

\* Mutant of Handler: a timeout is not handled, so it is not retried.
HandlerTimeoutFatal(e) ==
    IF e = "ConnectionError" THEN "ConnectionError"
    ELSE IF e \in {"RequestException", "HTTPError"} THEN "RequestException"
    ELSE "uncaught"

\* Which except clause handles exception class e, the clauses tried in
\* order.  HTTPError is a RequestException; a class none of the clauses
\* names is not caught.
Handler(e) ==
    IF e = "ConnectionError" THEN "ConnectionError"
    ELSE IF e = "Timeout" THEN "Timeout"
    ELSE IF e \in {"RequestException", "HTTPError"} THEN "RequestException"
    ELSE "uncaught"

\* The error_msg each except clause builds (url left out).
ErrorMsg(h, t) ==
    IF h = "ConnectionError"
      THEN "Connection error: The OpenTelemetry endpoint is unavailable"
    ELSE IF h = "Timeout"
      THEN "Timeout error: The request timed out"
    ELSE "Request error: Failed to send " \o t

\* Mutant of ShouldSleep: the delay is skipped altogether.
ShouldSleepNever(a) == FALSE

\* Mutant of ShouldSleep: the test is off by one, so the last attempt
\* sleeps too.
ShouldSleepAlways(a) == a < MAX_RETRIES

\* "Don't sleep after the last attempt"
ShouldSleep(a) == a < MAX_RETRIES - 1

\* Mutant of LoopNext: the loop gives up one attempt early.
LoopNextGivesUpEarly(a) == IF a + 1 < MAX_RETRIES - 1 THEN "post" ELSE "fail"

\* Mutant of LoopNext: the range is one too long.
LoopNextOffByOne(a) == IF a + 1 <= MAX_RETRIES THEN "post" ELSE "fail"

\* for attempt in range(MAX_RETRIES): where control goes when iteration a
\* ends without returning.
LoopNext(a) == IF a + 1 < MAX_RETRIES THEN "post" ELSE "fail"

\* The message returned when the loop is exhausted.
FailMsg(t) ==
    "Failed to send " \o t \o " after " \o ToString(MAX_RETRIES) \o " attempts"

\* Mutant of ExitCode: the elif branch is lost.
ExitCodeOnlyAllFailed(sc) == IF sc = 0 THEN 1 ELSE 0

\* The process exit status decided by the module's last statement.
ExitCode(sc) ==
    IF sc = 0 THEN 1
    ELSE IF sc < total_operations THEN 1
    ELSE 0

\* ------------------------------------------------- start-up: the payload

\* time.time_ns() and the sums built on it exceed 32 bits, so a nanosecond
\* count is held as whole seconds (hi) and the nanoseconds left (lo).
NANOS_PER_SECOND == 1000000000

Ns(hi, lo) == [hi |-> hi, lo |-> lo]

\* Integer addition of two nanosecond counts.
Plus(a, b) ==
    IF a.lo + b.lo >= NANOS_PER_SECOND
      THEN Ns(a.hi + b.hi + 1, a.lo + b.lo - NANOS_PER_SECOND)
      ELSE Ns(a.hi + b.hi, a.lo + b.lo)

DecDigits == <<"0", "1", "2", "3", "4", "5", "6", "7", "8", "9">>

RECURSIVE Digits(_)
\* The decimal digits of a natural number, most significant first.
Digits(n) ==
    IF n < 10 THEN <<DecDigits[n + 1]>>
    ELSE Append(Digits(n \div 10), DecDigits[(n % 10) + 1])

\* The nine decimal digits of lo, zeros in front.
Pad9(n) == [i \in 1..9 |-> DecDigits[((n \div (10 ^ (9 - i))) % 10) + 1]]

\* str(n) of a nanosecond count.
PyStr(a) == IF a.hi = 0 THEN Digits(a.lo) ELSE Digits(a.hi) \o Pad9(a.lo)

\* 30_000_000_000: 30 seconds later
PARENT_END_OFFSET == Ns(30, 0)

\* 5_000_000_000: 5 seconds after parent starts
CHILD_START_OFFSET == Ns(5, 0)

\* 15_000_000_000: 10 seconds duration
CHILD_END_OFFSET == Ns(15, 0)

\* Mutant of TracePayload: the child's end offset has a zero too many
\* (150_000_000_000).
TracePayloadChildTooLong(t, tid, pid, cid) ==
    << [traceId |-> tid,
        spanId |-> pid,
        name |-> "parent-operation",
        kind |-> "SPAN_KIND_SERVER",
        startTimeUnixNano |-> PyStr(t),
        endTimeUnixNano |-> PyStr(Plus(t, PARENT_END_OFFSET))],
       [traceId |-> tid,
        spanId |-> cid,
        parentSpanId |-> pid,
        name |-> "child-operation",
        kind |-> "SPAN_KIND_INTERNAL",
        startTimeUnixNano |-> PyStr(Plus(t, CHILD_START_OFFSET)),
        endTimeUnixNano |-> PyStr(Plus(t, Ns(150, 0)))] >>

\* Mutant of TracePayload: the child names itself as its parent.
TracePayloadChildIsOwnParent(t, tid, pid, cid) ==
    << [traceId |-> tid,
        spanId |-> pid,
        name |-> "parent-operation",
        kind |-> "SPAN_KIND_SERVER",
        startTimeUnixNano |-> PyStr(t),
        endTimeUnixNano |-> PyStr(Plus(t, PARENT_END_OFFSET))],
       [traceId |-> tid,
        spanId |-> cid,
        parentSpanId |-> cid,
        name |-> "child-operation",
        kind |-> "SPAN_KIND_INTERNAL",
        startTimeUnixNano |-> PyStr(Plus(t, CHILD_START_OFFSET)),
        endTimeUnixNano |-> PyStr(Plus(t, CHILD_END_OFFSET))] >>

\* The spans of trace_payload (the resource and scope around them left out).
TracePayload(t, tid, pid, cid) ==
    << [traceId |-> tid,
        spanId |-> pid,
        name |-> "parent-operation",
        kind |-> "SPAN_KIND_SERVER",
        startTimeUnixNano |-> PyStr(t),
        endTimeUnixNano |-> PyStr(Plus(t, PARENT_END_OFFSET))],
       [traceId |-> tid,
        spanId |-> cid,
        parentSpanId |-> pid,
        name |-> "child-operation",
        kind |-> "SPAN_KIND_INTERNAL",
        startTimeUnixNano |-> PyStr(Plus(t, CHILD_START_OFFSET)),
        endTimeUnixNano |-> PyStr(Plus(t, CHILD_END_OFFSET))] >>

\* Values of time.time_ns() at start-up.
TimeSamples ==
    {Ns(0, 0), Ns(0, 999999999), Ns(9, 999999999), Ns(999999999, 1),
     Ns(1700000000, 123456789), Ns(1762353000, 0)}

\* The value of time.time_ns() the sends are explored for.
StartTime == Ns(1700000000, 123456789)

\* os.urandom(n) over more seeds, constant byte strings included.
URandomWide(n) ==
    {[i \in 1..n |-> (s + k * i) % 256] : s \in {0, 7, 200, 255}, k \in {0, 89}}

\* ---------------------------------------------------------------- state

VARIABLES
    pc,                 \* position of the script
    cur,                \* index in Types of the send being made
    attempt,            \* send_telemetry: loop variable
    response,           \* send_telemetry: status of the last response, 0 if none
    outcome,            \* what the most recent requests.post of this send did
    error_msg,          \* send_telemetry: text of the last error line, "" if none
    success,            \* module: first component of the last call's value
    result,             \* module: second component of the last call's value
    success_count,      \* module: Track overall success
    current_time_ns,    \* module: time.time_ns() at start-up
    trace_payload,      \* module: the spans of the trace payload
    trace_id_hex,       \* module: os.urandom(16).hex()
    parent_span_id_hex, \* module: os.urandom(8).hex()
    child_span_id_hex,  \* module: os.urandom(8).hex()
    exit_code,          \* process exit status, -1 while running
    log                 \* what the process has done so far

vars == <<pc, cur, attempt, response, outcome, error_msg, success, result,
          success_count, current_time_ns, trace_payload, trace_id_hex, parent_span_id_hex, child_span_id_hex,
          exit_code, log>>

ids == <<trace_id_hex, parent_span_id_hex, child_span_id_hex>>
built == <<current_time_ns, trace_payload>>
locals == <<attempt, response, error_msg>>
globals == <<success, result, success_count>>

\* Values of `result`: a response object or a str.
Response(s) == [kind |-> "Response", status_code |-> s, text |-> ""]
Str(m) == [kind |-> "str", status_code |-> 0, text |-> m]

\* Log entries.  n is the attempt number as printed (1-based) of a POST, the
\* seconds of a sleep, the status code of a result print, the count of the
\* summary, or the exit status.
Entry(ev, t, n, ok, val) == [ev |-> ev, type |-> t, n |-> n, ok |-> ok, val |-> val]

NoOutcome == [kind |-> "none", status |-> 0]

Init ==
    /\ pc = "call"
    /\ cur = 1
    /\ attempt = 0
    /\ response = 0
    /\ outcome = NoOutcome
    /\ error_msg = ""
    /\ success = FALSE
    /\ result = Str("")
    /\ success_count = 0
    /\ trace_id_hex \in {Hex(b) : b \in URandom(16)}
    /\ parent_span_id_hex \in {Hex(b) : b \in URandom(8)}
    /\ child_span_id_hex \in {Hex(b) : b \in URandom(8)}
    /\ current_time_ns = StartTime
    /\ trace_payload = TracePayload(current_time_ns, trace_id_hex,
                                    parent_span_id_hex, child_span_id_hex)
    /\ exit_code = -1
    /\ log = <<>>

\* -------------------------------------------------------------- actions

\* Mutant of Call: the attempt counter is shared by the sends, and a send
\* that failed leaves one attempt used.
CallSharesBudget ==
    /\ pc = "call"
    /\ attempt' = IF log # <<>> /\ ~success THEN 1 ELSE 0
    /\ response' = 0
    /\ outcome' = NoOutcome
    /\ error_msg' = ""
    /\ pc' = "post"
    /\ log' = Append(log, Entry("call", Types[cur], 0, TRUE, <<>>))
    /\ UNCHANGED <<cur, globals, ids, built, exit_code>>

\* send_telemetry(endpoint, payload, telemetry_type) is entered.
Call ==
    /\ pc = "call"
    /\ attempt' = 0
    /\ response' = 0
    /\ outcome' = NoOutcome
    /\ error_msg' = ""
    /\ pc' = "post"
    /\ log' = Append(log, Entry("call", Types[cur], 0, TRUE, <<>>))
    /\ UNCHANGED <<cur, globals, ids, built, exit_code>>

\* One pass through the try block: requests.post, raise_for_status and
\* `return True, response`; when one of the first two raises, the except
\* clause that catches it and the test that decides on the sleep.  An
\* exception no clause catches leaves send_telemetry and the module: the
\* interpreter prints the traceback and exits with status 1.
Post ==
    /\ pc = "post"
    /\ \E o \in Outcomes :
        LET t == Types[cur]
            posted == Entry("post", t, attempt + 1, ~Raised(o), <<>>)
        IN  /\ outcome' = o
            /\ IF ~Raised(o)
                 THEN /\ success' = TRUE
                      /\ result' = Response(o.status)
                      /\ pc' = "handle"
                      /\ log' = log \o <<posted, Entry("return", t, o.status, TRUE, <<>>)>>
                      /\ attempt' = 0
                      /\ response' = 0
                      /\ error_msg' = ""
                      /\ exit_code' = exit_code
               ELSE IF Handler(Exception(o)) = "uncaught"
                 THEN /\ pc' = "done"
                      /\ exit_code' = 1
                      /\ log' = log \o <<posted, Entry("exit", "", 1, FALSE, <<>>)>>
                      /\ UNCHANGED <<locals, success, result>>
               ELSE /\ response' = IF o.kind = "response" THEN o.status ELSE response
                    /\ error_msg' = ErrorMsg(Handler(Exception(o)), t)
                    /\ log' = Append(log, posted)
                    /\ IF ShouldSleep(attempt)
                         THEN pc' = "sleep" /\ attempt' = attempt
                         ELSE pc' = LoopNext(attempt) /\ attempt' = attempt + 1
                    /\ UNCHANGED <<success, result, exit_code>>
    /\ UNCHANGED <<cur, success_count, ids, built>>

\* time.sleep(RETRY_DELAY), then the next iteration of the loop.
Sleep ==
    /\ pc = "sleep"
    /\ log' = Append(log, Entry("sleep", Types[cur], RETRY_DELAY, TRUE, <<>>))
    /\ attempt' = attempt + 1
    /\ pc' = LoopNext(attempt)
    /\ UNCHANGED <<cur, response, outcome, error_msg, globals, ids, built, exit_code>>

\* The loop is exhausted: return False, "Failed to send ...".
ReturnFail ==
    /\ pc = "fail"
    /\ success' = FALSE
    /\ result' = Str(FailMsg(Types[cur]))
    /\ log' = Append(log, Entry("return", Types[cur], 0, FALSE, <<>>))
    /\ attempt' = 0
    /\ response' = 0
    /\ error_msg' = ""
    /\ pc' = "handle"
    /\ UNCHANGED <<cur, outcome, success_count, ids, built, exit_code>>

\* Mutant of Handle: the increment has slipped out of the if branch.
HandleCountsEverySend ==
    /\ pc = "handle"
    /\ success_count' = success_count + 1
    /\ IF success
         THEN log' = Append(log, Entry("print_status", Types[cur],
                                       result.status_code, TRUE, <<>>))
         ELSE log' = Append(log, Entry("print_error", Types[cur], 0, FALSE,
                                       <<result.text>>))
    /\ IF cur < Len(Types)
         THEN cur' = cur + 1 /\ pc' = "call"
         ELSE cur' = cur /\ pc' = "ids"
    /\ UNCHANGED <<locals, outcome, success, result, ids, built, exit_code>>

\* The module's if/else after each call, and the move to the next call.
Handle ==
    /\ pc = "handle"
    /\ IF success
         THEN /\ success_count' = success_count + 1
              /\ log' = Append(log, Entry("print_status", Types[cur],
                                          result.status_code, TRUE, <<>>))
         ELSE /\ success_count' = success_count
              /\ log' = Append(log, Entry("print_error", Types[cur], 0, FALSE,
                                          <<result.text>>))
    /\ IF cur < Len(Types)
         THEN cur' = cur + 1 /\ pc' = "call"
         ELSE cur' = cur /\ pc' = "ids"
    /\ UNCHANGED <<locals, outcome, success, result, ids, built, exit_code>>

\* Mutant of PrintIds: the ids are printed only when a send succeeded.
PrintIdsUnlessAllFailed ==
    /\ pc = "ids"
    /\ log' = IF success_count = 0 THEN log
              ELSE log \o <<Entry("print_id", "traceId", 0, TRUE, trace_id_hex),
                            Entry("print_id", "parent spanId", 0, TRUE, parent_span_id_hex),
                            Entry("print_id", "child spanId", 0, TRUE, child_span_id_hex)>>
    /\ pc' = "summary"
    /\ UNCHANGED <<cur, locals, outcome, globals, ids, built, exit_code>>

\* Always print the generated IDs regardless of success.
PrintIds ==
    /\ pc = "ids"
    /\ log' = log \o <<Entry("print_id", "traceId", 0, TRUE, trace_id_hex),
                       Entry("print_id", "parent spanId", 0, TRUE, parent_span_id_hex),
                       Entry("print_id", "child spanId", 0, TRUE, child_span_id_hex)>>
    /\ pc' = "summary"
    /\ UNCHANGED <<cur, locals, outcome, globals, ids, built, exit_code>>

\* Summary: "<success_count>/<total_operations> operations completed successfully".
Summary ==
    /\ pc = "summary"
    /\ log' = Append(log, Entry("summary", "", success_count, TRUE, <<total_operations>>))
    /\ pc' = "exit"
    /\ UNCHANGED <<cur, locals, outcome, globals, ids, built, exit_code>>

\* Exit with appropriate status code.
Exit ==
    /\ pc = "exit"
    /\ exit_code' = ExitCode(success_count)
    /\ log' = Append(log, Entry("exit", "", ExitCode(success_count), TRUE, <<>>))
    /\ pc' = "done"
    /\ UNCHANGED <<cur, locals, outcome, globals, ids, built>>

Next ==
    \/ Call
    \/ Post
    \/ Sleep
    \/ ReturnFail
    \/ Handle
    \/ PrintIds
    \/ Summary
    \/ Exit

Spec == Init /\ [][Next]_vars

\* The script is one thread and each of its steps ends (a POST returns or
\* raises, a sleep is over after RETRY_DELAY seconds), so a step that can be
\* taken is taken.
SpecFair == Spec /\ WF_vars(Next)

\* ------------------------------------------- start-up, before the sends

\* The module's statements above send_telemetry, explored on their own over
\* more start times and more random bytes than the sends are.
InitBuild ==
    /\ pc = "capture_time"
    /\ cur = 1
    /\ attempt = 0
    /\ response = 0
    /\ outcome = NoOutcome
    /\ error_msg = ""
    /\ success = FALSE
    /\ result = Str("")
    /\ success_count = 0
    /\ current_time_ns = Ns(0, 0)
    /\ trace_payload = <<>>
    /\ trace_id_hex = <<>>
    /\ parent_span_id_hex = <<>>
    /\ child_span_id_hex = <<>>
    /\ exit_code = -1
    /\ log = <<>>

\* current_time_ns = time.time_ns()
CaptureTime ==
    /\ pc = "capture_time"
    /\ \E t \in TimeSamples : current_time_ns' = t
    /\ pc' = "generate_ids"
    /\ UNCHANGED <<cur, locals, outcome, globals, ids, trace_payload, exit_code, log>>

\* The three os.urandom(n).hex() assignments.
GenerateIds ==
    /\ pc = "generate_ids"
    /\ \E a \in URandomWide(16), b \in URandomWide(8), c \in URandomWide(8) :
           /\ trace_id_hex' = Hex(a)
           /\ parent_span_id_hex' = Hex(b)
           /\ child_span_id_hex' = Hex(c)
    /\ pc' = "build_trace"
    /\ UNCHANGED <<cur, locals, outcome, globals, current_time_ns, trace_payload,
                   exit_code, log>>

\* trace_payload = {...}
BuildTrace ==
    /\ pc = "build_trace"
    /\ trace_payload' = TracePayload(current_time_ns, trace_id_hex,
                                     parent_span_id_hex, child_span_id_hex)
    /\ pc' = "call"
    /\ UNCHANGED <<cur, locals, outcome, globals, ids, current_time_ns, exit_code, log>>

NextBuild ==
    \/ CaptureTime
    \/ GenerateIds
    \/ BuildTrace

SpecBuild == InitBuild /\ [][NextBuild]_vars

\* ------------------------------------------------- reading the log

TypeSet == {Types[i] : i \in DOMAIN Types}

\* Positions of the log entries of event ev for telemetry type t.
At(ev, t) == {i \in DOMAIN log : log[i].ev = ev /\ log[i].type = t}

NumPosts(t) == Cardinality(At("post", t))
NumSleeps(t) == Cardinality(At("sleep", t))
HasReturned(t) == At("return", t) # {}
ReturnedSuccess(t) == \E i \in At("return", t) : log[i].ok
ReturnedFailure(t) == \E i \in At("return", t) : ~log[i].ok

\* The k-th POST (numbered from 1) of the send of t was made and failed.
FailedAttempt(t, k) == \E i \in At("post", t) : log[i].n = k /\ ~log[i].ok

\* The k-th POST of the send of t was made and answered with a 2xx status.
Succeeded2xx(t, k) ==
    \E i \in At("post", t) :
        /\ log[i].n = k
        /\ log[i].ok
        /\ i < Len(log)
        /\ log[i + 1].ev = "return"
        /\ log[i + 1].type = t
        /\ log[i + 1].n \in 200..299

\* The send of t is the one whose value the module is about to look at.
JustReturned(t) == pc = "handle" /\ Types[cur] = t

\* ---------------------------------------------------------------- C1

\* C1: for every telemetry type and every N in 0..2, if the first N POSTs of
\* a send fail and POST N+1 is answered 2xx, then the send makes exactly N+1
\* POSTs and N delays and returns success, and that stays so in every later
\* state (no further POST for that type).
C1_SuccessAfterNFailures ==
    \A t \in TypeSet : \A N \in 0..2 :
        ((\A k \in 1..N : FailedAttempt(t, k)) /\ Succeeded2xx(t, N + 1)) =>
            /\ NumPosts(t) = N + 1
            /\ NumSleeps(t) = N
            /\ ReturnedSuccess(t)
            /\ ~ReturnedFailure(t)
            /\ JustReturned(t) => success /\ result.kind = "Response"
                                          /\ result.status_code \in 200..299

\* C1 witness: the program has ended, traces succeeded on its third POST
\* after two failures and logs succeeded on its first.
C1_Witness ==
    /\ pc = "done"
    /\ Succeeded2xx("logs", 1)
    /\ FailedAttempt("traces", 1)
    /\ FailedAttempt("traces", 2)
    /\ Succeeded2xx("traces", 3)

\* ---------------------------------------------------------------- C2

ExpectedDetail(t) ==
    CASE t = "logs" -> "Failed to send logs after 3 attempts"
      [] t = "metrics" -> "Failed to send metrics after 3 attempts"
      [] t = "traces" -> "Failed to send traces after 3 attempts"

\* C2: for every telemetry type, if three POSTs of a send fail, the send
\* makes exactly 3 POSTs and 2 delays, and what it returns is
\* (False, "Failed to send <type> after 3 attempts").
C2_FailureAfterThreeFailures ==
    \A t \in TypeSet :
        (\A k \in 1..3 : FailedAttempt(t, k)) =>
            /\ NumPosts(t) = 3
            /\ NumSleeps(t) = 2
            /\ ~ReturnedSuccess(t)
            /\ Types[cur] = t => pc \in {"fail", "handle", "ids", "summary", "exit", "done"}
            /\ JustReturned(t) => /\ ReturnedFailure(t)
                                  /\ ~success
                                  /\ result = Str(ExpectedDetail(t))
            /\ \A i \in At("print_error", t) : log[i].val = <<ExpectedDetail(t)>>

\* C2 witness: metrics has just returned after three failed POSTs.
C2_Witness ==
    /\ JustReturned("metrics")
    /\ \A k \in 1..3 : FailedAttempt("metrics", k)
    /\ ReturnedFailure("metrics")

\* ---------------------------------------------------------------- C3

AllSendsSucceeded == \A t \in TypeSet : ReturnedSuccess(t)

\* C3: the exit status is 0 if and only if all three sends returned
\* success, and 1 whenever one, two or three of them failed; the process has
\* an exit status exactly when it has ended.
C3_ExitCodeIffAllSucceeded ==
    /\ pc = "done" <=> exit_code # -1
    /\ pc = "done" =>
        /\ \A t \in TypeSet : HasReturned(t)
        /\ exit_code = 0 <=> AllSendsSucceeded
        /\ exit_code = 1 <=> \E t \in TypeSet : ReturnedFailure(t)

\* C3 witness: the process has ended with status 1 after exactly one
\* failed send.
C3_Witness ==
    /\ pc = "done"
    /\ exit_code = 1
    /\ ReturnedSuccess("logs")
    /\ ReturnedFailure("metrics")
    /\ ReturnedSuccess("traces")

\* ---------------------------------------------------------------- C4

ErrorStatus(o) == o.kind = "response" /\ o.status \in 400..599

\* The most recent POST of the send of t.
LastPost(t) == CHOOSE i \in At("post", t) : \A j \in At("post", t) : j <= i

\* C4 as claimed: a send never returns success on a response whose status is
\* outside 2xx.
C4_NeverSuccessOutside2xx ==
    \A t \in TypeSet : \A i \in At("return", t) :
        log[i].ok => log[i].n \in 200..299

\* C4, amended: an attempt answered with a 4xx or 5xx status is a failed
\* attempt, which is retried (a delay, then the next POST) or ends the loop
\* (the failure result); a send never returns success on a response whose
\* status is 4xx or 5xx.
C4_ErrorStatusIsFailedAttempt ==
    /\ \A t \in TypeSet : \A i \in At("return", t) :
           log[i].ok => log[i].n \notin 400..599
    /\ \A t \in TypeSet : \A i \in At("print_status", t) :
           log[i].n \notin 400..599
    /\ (ErrorStatus(outcome) /\ pc \in {"post", "sleep", "fail", "handle"}) =>
           /\ ~log[LastPost(Types[cur])].ok
           /\ pc = "post" => log[Len(log)].ev = "sleep"
           /\ pc = "handle" => ~success /\ ReturnedFailure(Types[cur])
    /\ (ErrorStatus(outcome) /\ log[Len(log)].ev = "post") =>
           pc = (IF log[Len(log)].n < MAX_RETRIES THEN "sleep" ELSE "fail")

\* C4 witness: a 500 answer to the second POST of logs is being retried.
C4_Witness ==
    /\ pc = "sleep"
    /\ Types[cur] = "logs"
    /\ outcome = [kind |-> "response", status |-> 500]
    /\ attempt = 1

\* ---------------------------------------------------------------- C5

\* C5: no failure of an attempt ends the program: a send that fails does so
\* by returning the failure result after MAX_RETRIES POSTs, the program
\* can always take its next step until it exits through its last statement,
\* and by then logs, metrics and traces have each been POSTed at least once
\* and have each returned.
C5_FailuresNeverPropagate ==
    /\ pc = "done" \/ ENABLED Next
    /\ \A t \in TypeSet : ReturnedFailure(t) => NumPosts(t) = MAX_RETRIES
    /\ \A t \in TypeSet :
           (At("print_status", t) \cup At("print_error", t) # {}) => HasReturned(t)
    /\ pc \in {"ids", "summary", "exit", "done"} =>
           \A t \in TypeSet : NumPosts(t) >= 1 /\ HasReturned(t)
    /\ pc = "done" =>
           /\ log[Len(log)].ev = "exit"
           /\ log[Len(log)].ok
           /\ \E i \in DOMAIN log : log[i].ev = "summary"

\* C5 witness: the program has ended after logs and metrics failed, the last
\* POST of the run having timed out.
C5_Witness ==
    /\ pc = "done"
    /\ ReturnedFailure("logs")
    /\ ReturnedFailure("metrics")
    /\ ReturnedFailure("traces")
    /\ outcome.kind = "Timeout"

\* ---------------------------------------------------------------- C6

\* C6: what follows a failed attempt depends on its number only, not on the
\* category of the failure: after failed POST k < 3 comes a delay and k
\* attempts have been used, after failed POST 3 comes the failure result;
\* the failure result does not name the category.
C6_CategoriesRetriedIdentically ==
    /\ \A i \in DOMAIN log :
           (log[i].ev = "post" /\ ~log[i].ok) =>
               /\ i = Len(log) =>
                      /\ pc = (IF log[i].n < 3 THEN "sleep" ELSE "fail")
                      /\ attempt = (IF log[i].n < 3 THEN log[i].n - 1 ELSE 3)
                      /\ Raised(outcome)
               /\ i < Len(log) =>
                      /\ log[i + 1].ev = (IF log[i].n < 3 THEN "sleep" ELSE "return")
                      /\ log[i + 1].type = log[i].type
                      /\ ~log[i + 1].ok \/ log[i + 1].ev = "sleep"
    /\ \A c \in {"ConnectionError", "Timeout", "RequestException"} :
           (pc = "handle" /\ ~success /\ outcome.kind = c) =>
               result = Str(ExpectedDetail(Types[cur]))

\* C6 witness: the third POST of metrics has just failed with a timeout,
\* after which the loop ends without a delay.
C6_Witness ==
    /\ pc = "fail"
    /\ Types[cur] = "metrics"
    /\ outcome.kind = "Timeout"
    /\ log[Len(log)].ev = "post"
    /\ log[Len(log)].n = 3

\* ---------------------------------------------------------------- C7

\* C7: every delay comes right after a failed POST numbered 1 or 2 and right
\* before the next POST of the same telemetry type, and lasts RETRY_DELAY
\* seconds; no delay follows a third failed POST or a successful POST.
C7_DelayOnlyBetweenAttempts ==
    /\ \A i \in DOMAIN log :
           log[i].ev = "sleep" =>
               /\ log[i].n = 2
               /\ i > 1
               /\ log[i - 1].ev = "post"
               /\ ~log[i - 1].ok
               /\ log[i - 1].n \in {1, 2}
               /\ log[i - 1].type = log[i].type
               /\ i = Len(log) =>
                      /\ pc = "post"
                      /\ Types[cur] = log[i].type
                      /\ attempt + 1 = log[i - 1].n + 1
               /\ i < Len(log) =>
                      /\ log[i + 1].ev = "post"
                      /\ log[i + 1].type = log[i].type
                      /\ log[i + 1].n = log[i - 1].n + 1
    /\ \A i \in DOMAIN log :
           (log[i].ev = "post" /\ (log[i].ok \/ log[i].n >= 3)) =>
               /\ i = Len(log) => pc # "sleep"
               /\ i < Len(log) => log[i + 1].ev # "sleep"

\* C7 witness: traces is about to make its third POST, right after the
\* delay that followed its second failed POST.
C7_Witness ==
    /\ pc = "post"
    /\ Types[cur] = "traces"
    /\ attempt = 2
    /\ log[Len(log)].ev = "sleep"
    /\ FailedAttempt("traces", 2)

\* ---------------------------------------------------------------- C8

Rank(t) ==
    CASE t = "logs" -> 1
      [] t = "metrics" -> 2
      [] t = "traces" -> 3

InProgress(t) == At("call", t) # {} /\ ~HasReturned(t)

\* C8: the sends are made in the order logs, metrics, traces: nothing is
\* done for a type before everything done for the types before it, every
\* POST for metrics comes after the return of the logs send and every POST
\* for traces after the return of the metrics send, each type is sent once,
\* and at most one send is in progress at any time.
C8_SendsStrictlySequential ==
    /\ \A i, j \in DOMAIN log :
           (i < j /\ log[i].type \in TypeSet /\ log[j].type \in TypeSet) =>
               Rank(log[i].type) <= Rank(log[j].type)
    /\ \A i \in At("post", "metrics") : \E r \in At("return", "logs") : r < i
    /\ \A i \in At("post", "traces") : \E r \in At("return", "metrics") : r < i
    /\ \A t \in TypeSet : Cardinality(At("call", t)) <= 1
                            /\ Cardinality(At("return", t)) <= 1
    /\ Cardinality({t \in TypeSet : InProgress(t)}) <= 1
    /\ \A t \in TypeSet : InProgress(t) => Types[cur] = t

\* C8 witness: traces is being sent (its second POST is due) after logs
\* succeeded and metrics failed.
C8_Witness ==
    /\ InProgress("traces")
    /\ NumPosts("traces") = 1
    /\ ReturnedSuccess("logs")
    /\ ReturnedFailure("metrics")

\* ---------------------------------------------------------------- C9

\* The module is through with the send of t: it has printed its status or
\* its error.
Handled(t) == At("print_status", t) \cup At("print_error", t) # {}

\* C9: success_count is between 0 and 3 and is the number of sends that
\* returned success and that the module is through with; the count the
\* summary prints is the number of the three sends that returned success,
\* out of 3; success_count never decreases.
C9_CountState ==
    /\ success_count \in 0..3
    /\ success_count = Cardinality({t \in TypeSet : ReturnedSuccess(t) /\ Handled(t)})
    /\ \A i \in DOMAIN log :
           log[i].ev = "summary" =>
               /\ log[i].n = Cardinality({t \in TypeSet : ReturnedSuccess(t)})
               /\ log[i].n = success_count
               /\ log[i].val = <<3>>
               /\ \A t \in TypeSet : Handled(t)

\* C9, in full: the state part above holds in every state, and no step of
\* the program decreases success_count.
C9_SuccessCountIsNumberOfSuccesses ==
    []C9_CountState /\ [][success_count' >= success_count]_vars

\* C9 witness: the summary has been printed with a count of 2.
C9_Witness ==
    /\ pc = "exit"
    /\ success_count = 2
    /\ log[Len(log)].ev = "summary"
    /\ log[Len(log)].n = 2
    /\ ReturnedFailure("logs")

\* --------------------------------------------------------------- C10

\* The three ids are printed at positions i, i+1, i+2 of the log.
IdsPrintedAt(i) ==
    /\ i + 2 <= Len(log)
    /\ log[i] = Entry("print_id", "traceId", 0, TRUE, trace_id_hex)
    /\ log[i + 1] = Entry("print_id", "parent spanId", 0, TRUE, parent_span_id_hex)
    /\ log[i + 2] = Entry("print_id", "child spanId", 0, TRUE, child_span_id_hex)

\* C10: whatever the sends returned, once the program is past its id
\* printing (and so when it has exited), the generated trace id, parent span
\* id and child span id have been printed, after the return of all three
\* sends and before the exit.
C10_IdsAlwaysPrinted ==
    pc \in {"summary", "exit", "done"} =>
        \E i \in DOMAIN log :
            /\ IdsPrintedAt(i)
            /\ \A t \in TypeSet : \E r \in At("return", t) : r < i
            /\ \A t \in TypeSet : Handled(t)
            /\ \A j \in DOMAIN log : log[j].ev = "exit" => j > i + 2

\* C10 witness: the program has exited after all three sends failed, and
\* the ids are in its output.
C10_Witness ==
    /\ pc = "done"
    /\ \A t \in TypeSet : ReturnedFailure(t)
    /\ \E i \in DOMAIN log : IdsPrintedAt(i)

\* --------------------------------------------------------------- C11

\* Reading a decimal string back, as the collector does.
DigitValue(c) == CHOOSE d \in 0..9 : DecDigits[d + 1] = c

RECURSIVE ParseNat(_)
ParseNat(ds) ==
    IF ds = <<>> THEN 0
    ELSE ParseNat(SubSeq(ds, 1, Len(ds) - 1)) * 10 + DigitValue(ds[Len(ds)])

ParseNs(ds) ==
    IF Len(ds) <= 9 THEN Ns(0, ParseNat(ds))
    ELSE Ns(ParseNat(SubSeq(ds, 1, Len(ds) - 9)),
            ParseNat(SubSeq(ds, Len(ds) - 8, Len(ds))))

NsLeq(a, b) == a.hi < b.hi \/ (a.hi = b.hi /\ a.lo <= b.lo)
NsLess(a, b) == a.hi < b.hi \/ (a.hi = b.hi /\ a.lo < b.lo)

\* A decimal string as str() writes it: digits only, no zero in front.
IsDecimal(ds) ==
    /\ Len(ds) >= 1
    /\ \A i \in DOMAIN ds : \E d \in 0..9 : DecDigits[d + 1] = ds[i]
    /\ Len(ds) > 1 => ds[1] # "0"

\* C11: for every captured start time t, the parent span is [t, t + 30 s]
\* and the child span [t + 5 s, t + 15 s], as read back from the payload's
\* decimal strings, so parent.start <= child.start < child.end <= parent.end
\* and the child lasts 10 s.
C11_ChildWindowInsideParent ==
    pc = "call" =>
        LET ps == ParseNs(trace_payload[1].startTimeUnixNano)
            pe == ParseNs(trace_payload[1].endTimeUnixNano)
            cs == ParseNs(trace_payload[2].startTimeUnixNano)
            ce == ParseNs(trace_payload[2].endTimeUnixNano)
        IN  /\ \A k \in 1..2 : IsDecimal(trace_payload[k].startTimeUnixNano)
                                 /\ IsDecimal(trace_payload[k].endTimeUnixNano)
            /\ ps = current_time_ns
            /\ pe = Ns(ps.hi + 30, ps.lo)
            /\ cs = Ns(ps.hi + 5, ps.lo)
            /\ ce = Ns(ps.hi + 15, ps.lo)
            /\ NsLeq(ps, cs)
            /\ NsLess(cs, ce)
            /\ NsLeq(ce, pe)

\* C11 witness: a start time at which adding 5 s makes the decimal string
\* one digit longer.
C11_Witness ==
    /\ pc = "call"
    /\ current_time_ns = Ns(999999999, 1)
    /\ Len(trace_payload[1].startTimeUnixNano) = 18
    /\ Len(trace_payload[2].startTimeUnixNano) = 19

\* --------------------------------------------------------------- C12

\* C12: in the trace payload the child's parentSpanId is the parent's
\* spanId, the parent has no parentSpanId, both spans carry the generated
\* trace id, and the trace id printed at the end is that same id.
C12_ChildRefersToParent ==
    /\ Len(trace_payload) = 2
    /\ trace_payload[2].parentSpanId = trace_payload[1].spanId
    /\ "parentSpanId" \notin DOMAIN trace_payload[1]
    /\ trace_payload[1].traceId = trace_payload[2].traceId
    /\ trace_payload[1].traceId = trace_id_hex
    /\ trace_payload[1].spanId = parent_span_id_hex
    /\ trace_payload[2].spanId = child_span_id_hex
    /\ \A i \in DOMAIN log :
           log[i].ev = "print_id" =>
               log[i].val = (CASE log[i].type = "traceId" -> trace_payload[2].traceId
                               [] log[i].type = "parent spanId" -> trace_payload[2].parentSpanId
                               [] log[i].type = "child spanId" -> trace_payload[2].spanId)

\* C12 witness: the ids have been printed, and the two span ids differ.
C12_Witness ==
    /\ pc = "done"
    /\ parent_span_id_hex # child_span_id_hex
    /\ \E i \in DOMAIN log : log[i].ev = "print_id" /\ log[i].type = "traceId"

\* --------------------------------------------------------------- C13

HexChars == {"0", "1", "2", "3", "4", "5", "6", "7",
             "8", "9", "a", "b", "c", "d", "e", "f"}

IsHexOfLength(h, n) == Len(h) = n /\ \A i \in DOMAIN h : h[i] \in HexChars

\* C13: for every choice of random bytes, the trace id is 32 hexadecimal
\* characters and the parent and child span ids are 16 hexadecimal
\* characters each.
C13_IdLengths ==
    pc \in {"build_trace", "call"} =>
        /\ IsHexOfLength(trace_id_hex, 32)
        /\ IsHexOfLength(parent_span_id_hex, 16)
        /\ IsHexOfLength(child_span_id_hex, 16)

\* C13 witness: a trace id of zero bytes and a parent span id of 0xff bytes.
C13_Witness ==
    /\ pc = "call"
    /\ \A i \in DOMAIN trace_id_hex : trace_id_hex[i] = "0"
    /\ \A i \in DOMAIN parent_span_id_hex : parent_span_id_hex[i] = "f"
    /\ child_span_id_hex[1] # child_span_id_hex[3]

\* --------------------------------------------------------------- C14

\* C14: every send starts afresh: its first POST is numbered 1 whatever the
\* earlier sends did, its locals are those of a new call, its POSTs are
\* numbered 1, 2, ... without gaps, and the attempts it has used (so the
\* attempts it has left out of MAX_RETRIES) are the POSTs it made itself.
C14_FreshBudgetPerSend ==
    /\ \A t \in TypeSet :
           /\ {log[i].n : i \in At("post", t)} = 1..NumPosts(t)
           /\ \A i \in At("call", t) :
                  /\ i = Len(log) =>
                         /\ pc = "post"
                         /\ attempt = 0
                         /\ response = 0
                         /\ error_msg = ""
                         /\ outcome = NoOutcome
                  /\ i < Len(log) =>
                         /\ log[i + 1].ev = "post"
                         /\ log[i + 1].type = t
                         /\ log[i + 1].n = 1
           /\ InProgress(t) =>
                  /\ pc = "post" => attempt = NumPosts(t) /\ attempt < 3
                  /\ pc = "sleep" => attempt = NumPosts(t) - 1
                  /\ pc = "fail" => attempt = NumPosts(t) /\ attempt = 3

\* C14 witness: traces is about to make its third POST although logs and
\* metrics each used up all three attempts.
C14_Witness ==
    /\ pc = "post"
    /\ Types[cur] = "traces"
    /\ attempt = 2
    /\ NumPosts("logs") = 3 /\ ReturnedFailure("logs")
    /\ NumPosts("metrics") = 3 /\ ReturnedFailure("metrics")

\* --------------------------------------------------------------- C15

TotalPosts == Cardinality({i \in DOMAIN log : log[i].ev = "post"})
TotalSleeps == Cardinality({i \in DOMAIN log : log[i].ev = "sleep"})

\* The resource bounds of C15.
C15_Bounds ==
    /\ TotalPosts <= 9
    /\ TotalSleeps <= 6
    /\ \A i \in DOMAIN log : log[i].ev = "post" => log[i].n \in 1..3
    /\ \A t \in TypeSet : NumPosts(t) <= 3
    /\ pc = "done" => TotalPosts >= 3 /\ exit_code \in {0, 1}

\* C15: every execution in which each step ends reaches the exit with an
\* exit code; it makes at most 9 POSTs (at least 3 by the time it exits) and
\* at most 6 delays, and no send makes a fourth attempt.
C15_TerminatesWithinBudget ==
    []C15_Bounds /\ <>(pc = "done" /\ exit_code \in {0, 1})

\* C15 witness: the process has exited after 9 POSTs and 6 delays.
C15_Witness ==
    /\ pc = "done"
    /\ TotalPosts = 9
    /\ TotalSleeps = 6

\* --------------------------------------------------------------- C16

\* C16: a send returns success exactly when one of its POSTs succeeded;
\* that POST is then its last, is one of at most 3, every POST before it
\* failed and the return follows it at once; a send returns the failure
\* result only after exactly 3 POSTs, all failed.
C16_ReturnMatchesAttempts ==
    \A t \in TypeSet :
        /\ ~(ReturnedSuccess(t) /\ ReturnedFailure(t))
        /\ ReturnedSuccess(t) <=> \E i \in At("post", t) : log[i].ok
        /\ \A i \in At("post", t) :
               log[i].ok =>
                   /\ i = LastPost(t)
                   /\ log[i].n <= 3
                   /\ \A j \in At("post", t) : j < i => ~log[j].ok
                   /\ i < Len(log)
                   /\ log[i + 1].ev = "return" /\ log[i + 1].type = t /\ log[i + 1].ok
        /\ \A r \in At("return", t) :
               ~log[r].ok =>
                   /\ NumPosts(t) = 3
                   /\ \A i \in At("post", t) : ~log[i].ok /\ i < r
                   /\ log[r - 1].ev = "post" /\ log[r - 1].n = 3

\* C16 witness: logs succeeded on its second POST and metrics returned the
\* failure result.
C16_Witness ==
    /\ FailedAttempt("logs", 1)
    /\ NumPosts("logs") = 2
    /\ ReturnedSuccess("logs")
    /\ ReturnedFailure("metrics")
    /\ pc = "done"

=============================================================================
